---- MODULE Spec2Model ----
(***************************************************************************)
(* ascii-cam: the Zustand store (src/store/index.ts) that turns a webcam   *)
(* frame, and optionally a segmentation mask, into a block of text.        *)
(*                                                                         *)
(* Buffers (Uint8ClampedArray, ImageData.data) are sequences of bytes;     *)
(* the source's 0-based index i is position i + 1 here.  An optional value *)
(* (null, undefined) is the empty tuple and a present value v is <<v>>.    *)
(* Characters are Unicode code points, a text is a sequence of them.       *)
(*                                                                         *)
(* Line numbers of updateAsciiOutput are those of src/store/index.ts.  The *)
(* webcam and render-loop actions follow the revision of the store that    *)
(* owns the render loop (unnamed/part_003), where updateAsciiOutput is the *)
(* same text 20 lines further down; their line numbers are that file's.    *)
(***************************************************************************)
EXTENDS Integers, Sequences, FiniteSets, TLC

Null == <<>>

Some(v) == <<v>>

Min(a, b) == IF a < b THEN a ELSE b

Max(a, b) == IF a > b THEN a ELSE b

(***************************************************************************)
(* IEEE-754 binary64 arithmetic of line 75 (store/index.ts),               *)
(*   smoothedMask[i] = 0.7 * maskData.data[i] + 0.3 * previousMaskData[i]  *)
(* done on integers below 2^31.  A natural number below 2^63 is three      *)
(* limbs <<n0, n1, n2>> in base 2^21, least significant first.  The        *)
(* double 0.7 is Mant07 * 2^-53 and the double 0.3 is Mant03 * 2^-54.      *)
(***************************************************************************)
LimbBase == 2097152

Mant07 == <<419430, 1258291, 1433>>

Mant03 == <<1258291, 1677721, 1228>>

RECURSIVE Pow2(_)
Pow2(n) == IF n = 0 THEN 1 ELSE 2 * Pow2(n - 1)

RECURSIVE BitLen(_)
BitLen(x) == IF x = 0 THEN 0 ELSE 1 + BitLen(x \div 2)

LimbNorm(a, b, c) ==
  LET b2 == b + (a \div LimbBase)
      c2 == c + (b2 \div LimbBase)
  IN <<a % LimbBase, b2 % LimbBase, c2>>

LimbBitLen(n) ==
  IF n[3] > 0 THEN 42 + BitLen(n[3])
  ELSE IF n[2] > 0 THEN 21 + BitLen(n[2])
  ELSE BitLen(n[1])

LimbMul(n, k) == LimbNorm(n[1] * k, n[2] * k, n[3] * k)

\* Round to 53 significant bits, ties to even: the rounding of every
\* binary64 operation.
Round53(n) ==
  LET len == LimbBitLen(n)
  IN IF len <= 53 THEN n
     ELSE LET p   == Pow2(len - 53)
              rem == n[1] % p
              up  == \/ 2 * rem > p
                     \/ 2 * rem = p /\ (n[1] \div p) % 2 = 1
          IN LimbNorm(n[1] - rem + (IF up THEN p ELSE 0), n[2], n[3])

\* The double 0.7 * m + 0.3 * p, in units of 2^-54.
BlendDouble(m, p) ==
  LET r1 == Round53(LimbMul(Mant07, m))
      r2 == Round53(LimbMul(Mant03, p))
  IN Round53(LimbNorm(2 * r1[1] + r2[1], 2 * r1[2] + r2[2], 2 * r1[3] + r2[3]))

\* What a Uint8Array, which truncates, would store.
ToUint8Truncate(x) == Min(255, x[3] \div 4096)

\* The store into a Uint8ClampedArray element (ToUint8Clamp): clamp to
\* 0..255, round to nearest, ties to even.  x is in units of 2^-54.
ToUint8ClampDouble(x) ==
  LET f    == x[3] \div 4096
      frac == x[3] % 4096
      more == frac > 2048 \/ (frac = 2048 /\ (x[1] > 0 \/ x[2] > 0))
      tie  == frac = 2048 /\ x[1] = 0 /\ x[2] = 0
  IN IF f >= 255 THEN 255
     ELSE IF more THEN f + 1
     ELSE IF tie /\ f % 2 = 1 THEN f + 1
     ELSE f

\* The weights exchanged.
BlendSwapped(m, p) == ToUint8ClampDouble(BlendDouble(p, m))

\* smoothedMask[i] after line 75.
Blend8(m, p) == ToUint8ClampDouble(BlendDouble(m, p))

(***************************************************************************)
(* Mask compositor, lines 62-89.                                           *)
(***************************************************************************)

\* Math.pow(s / 255, 0.8) for s = 0..255 (lines 81-82), in units of
\* 2^-22: fine enough that Attenuate below equals the byte the source
\* stores for every pair of a pixel byte and a confidence byte.
GammaScale == 4194304

GammaTable ==
  <<
     0, 49823, 86746, 119984, 151034, 180553, 208905, 236323,
     262966, 288949, 314360, 339267, 363725, 387777, 411462, 434811,
     457851, 480603, 503090, 525328, 547333, 569119, 590699, 612083,
     633281, 654304, 675160, 695855, 716398, 736794, 757050, 777172,
     797164, 817032, 836779, 856411, 875931, 895342, 914649, 933855,
     952962, 971974, 990894, 1009724, 1028466, 1047123, 1065698, 1084192,
     1102607, 1120946, 1139210, 1157401, 1175521, 1193572, 1211554, 1229470,
     1247321, 1265108, 1282833, 1300497, 1318101, 1335647, 1353135, 1370567,
     1387943, 1405266, 1422535, 1439752, 1456917, 1474032, 1491098, 1508115,
     1525084, 1542006, 1558882, 1575712, 1592497, 1609238, 1625936, 1642591,
     1659204, 1675775, 1692306, 1708796, 1725247, 1741658, 1758031, 1774366,
     1790663, 1806923, 1823147, 1839335, 1855487, 1871605, 1887687, 1903736,
     1919750, 1935732, 1951680, 1967596, 1983480, 1999332, 2015152, 2030942,
     2046701, 2062430, 2078129, 2093798, 2109438, 2125049, 2140631, 2156186,
     2171712, 2187210, 2202681, 2218125, 2233542, 2248933, 2264297, 2279635,
     2294948, 2310234, 2325496, 2340733, 2355945, 2371132, 2386295, 2401434,
     2416550, 2431641, 2446710, 2461755, 2476777, 2491776, 2506753, 2521708,
     2536640, 2551551, 2566439, 2581307, 2596152, 2610977, 2625781, 2640563,
     2655325, 2670067, 2684788, 2699489, 2714171, 2728832, 2743473, 2758096,
     2772698, 2787282, 2801846, 2816392, 2830919, 2845427, 2859917, 2874388,
     2888842, 2903277, 2917694, 2932094, 2946476, 2960840, 2975187, 2989516,
     3003829, 3018124, 3032403, 3046665, 3060910, 3075138, 3089350, 3103546,
     3117726, 3131889, 3146037, 3160168, 3174284, 3188384, 3202469, 3216538,
     3230591, 3244630, 3258653, 3272661, 3286654, 3300633, 3314596, 3328545,
     3342479, 3356399, 3370305, 3384196, 3398072, 3411935, 3425783, 3439618,
     3453439, 3467246, 3481039, 3494818, 3508584, 3522337, 3536076, 3549801,
     3563514, 3577213, 3590899, 3604572, 3618232, 3631880, 3645514, 3659136,
     3672745, 3686341, 3699925, 3713497, 3727056, 3740603, 3754137, 3767660,
     3781170, 3794668, 3808154, 3821628, 3835091, 3848541, 3861980, 3875407,
     3888823, 3902227, 3915619, 3929000, 3942370, 3955728, 3969075, 3982411,
     3995736, 4009049, 4022352, 4035643, 4048924, 4062194, 4075453, 4088701,
     4101938, 4115165, 4128381, 4141587, 4154782, 4167966, 4181140, 4194304 >>

\* new Uint8ClampedArray(bytes): a sequence holding a copy of the bytes.
Uint8ClampedArray(bytes) == SubSeq(bytes, 1, Len(bytes))

\* masked.data[i] = masked.data[i] * gammaCorrectedAlpha (lines 83-85),
\* stored into a Uint8ClampedArray: rounded to the nearest byte.
\* The complement of the confidence used as alpha.
AttenuateInverted(d, s) ==
  (2 * d * GammaTable[(255 - s) + 1] + GammaScale) \div (2 * GammaScale)

Attenuate(d, s) == (2 * d * GammaTable[s + 1] + GammaScale) \div (2 * GammaScale)

\* A guard that only asks the previous mask to be long enough.
CanBlendLongEnough(maskData, previousMaskData) ==
  /\ previousMaskData # Null
  /\ Len(previousMaskData[1]) >= Len(maskData.data)

\* The guard of line 73.
CanBlend(maskData, previousMaskData) ==
  /\ previousMaskData # Null
  /\ Len(previousMaskData[1]) = Len(maskData.data)

\* smoothedMask after lines 72-77: a copy of the mask's bytes whose first
\* channel of every pixel (i += 4) is blended with the previous mask.
SmoothedMask(maskData, previousMaskData) ==
  Uint8ClampedArray(
    [k \in 1..Len(maskData.data) |->
       IF CanBlend(maskData, previousMaskData) /\ (k - 1) % 4 = 0
       THEN Blend8(maskData.data[k], previousMaskData[1][k])
       ELSE maskData.data[k]])

\* Storing the smoothed bytes instead.
StoredMaskSmoothed(maskData, smoothedMask) ==
  Some(Uint8ClampedArray(smoothedMask))

\* Line 78: set({ previousMaskData: new Uint8ClampedArray(maskData.data) }).
StoredMask(maskData, smoothedMask) == Some(Uint8ClampedArray(maskData.data))

\* masked.data after lines 80-86.  The loop runs over the mask's length;
\* a write past the end of masked.data is dropped, and a pixel past the
\* end of the mask is not written.
MaskedData(data, smoothedMask) ==
  Uint8ClampedArray(
    [k \in 1..Len(data) |->
       LET i == (k - 1) - ((k - 1) % 4)
       IN IF (k - 1) % 4 # 3 /\ i < Len(smoothedMask)
          THEN Attenuate(data[k], smoothedMask[i + 1])
          ELSE data[k]])

(***************************************************************************)
(* Grid shape, lines 94-96 and 158.  A division by zero yields Infinity.   *)
(***************************************************************************)
Infinity == 1000000000

FloorDiv(a, b) == IF b > 0 THEN a \div b ELSE (0 - a) \div (0 - b)

\* Math.floor(imgWidth / asciiWidth)
CellWidth(imgWidth, asciiWidth) ==
  IF asciiWidth = 0 THEN Infinity ELSE FloorDiv(imgWidth, asciiWidth)

\* Square cells.
CellHeightSquare(cellWidth) == cellWidth

\* Math.floor(cellWidth * 2)
CellHeight(cellWidth) == IF cellWidth = Infinity THEN Infinity ELSE cellWidth * 2

\* Math.floor(imgHeight / cellHeight)
GridHeight(imgHeight, cellHeight) ==
  IF cellHeight = 0 THEN Infinity
  ELSE IF cellHeight = Infinity THEN 0
  ELSE FloorDiv(imgHeight, cellHeight)

\* new Float32Array(asciiWidth * height) throws a RangeError for a length
\* that is infinite or negative (line 158).
AllocationThrows(asciiWidth, height) ==
  \/ height = Infinity
  \/ asciiWidth * height < 0

(***************************************************************************)
(* Colour calibration, lines 98-129.  Means are kept as sums over the      *)
(* sample and the sample count; factors are exact fractions.               *)
(***************************************************************************)
RECURSIVE SumSamples(_, _, _, _)
SumSamples(data, c, lo, hi) ==
  IF lo > hi THEN 0
  ELSE IF lo = hi THEN data[16 * lo + c + 1]
  ELSE LET mid == (lo + hi) \div 2
       IN SumSamples(data, c, lo, mid) + SumSamples(data, c, mid + 1, hi)

\* sumR, sumG, sumB of lines 100-106 (c = 0, 1, 2): every 4th pixel.
SumChannel(data, c) == SumSamples(data, c, 0, ((Len(data) + 15) \div 16) - 1)

\* Math.ceil(totalPixels / 4)
SampleCount(imgWidth, imgHeight) == (imgWidth * imgHeight + 3) \div 4

\* wbR, wbG, wbB (lines 114-116) as a fraction <<numerator, denominator>>:
\* grayMean / meanX = (sumR + sumG + sumB) / (3 * sumX).
WhiteBalance(sumX, sumAll) == IF sumX > 0 THEN <<sumAll, 3 * sumX>> ELSE <<1, 1>>

TempReduce == 92

TempBoost == 108

TempNone == 100

\* The ratio taken as (meanR + meanG) / meanB.
TempCorrNoOffset(sumR, sumG, sumB, sampleCount) ==
  IF 2 * (sumR + sumG) > 5 * sumB
  THEN <<TempReduce, TempNone, TempBoost>>
  ELSE IF 2 * (sumR + sumG) < 3 * sumB
  THEN <<TempBoost, TempNone, TempReduce>>
  ELSE <<TempNone, TempNone, TempNone>>

\* colorTempRatio = (meanR + meanG) / (meanB + 1) against 2.5 and 1.5
\* (lines 119-129); the result is <<tempCorrR, tempCorrG, tempCorrB>> in
\* hundredths.
TempCorr(sumR, sumG, sumB, sampleCount) ==
  IF 2 * (sumR + sumG) > 5 * (sumB + sampleCount)
  THEN <<TempReduce, TempNone, TempBoost>>
  ELSE IF 2 * (sumR + sumG) < 3 * (sumB + sampleCount)
  THEN <<TempBoost, TempNone, TempReduce>>
  ELSE <<TempNone, TempNone, TempNone>>

\* The calibration of one frame.
Calibrate(data, imgWidth, imgHeight) ==
  LET sumR == SumChannel(data, 0)
      sumG == SumChannel(data, 1)
      sumB == SumChannel(data, 2)
      all  == sumR + sumG + sumB
  IN [wbR  |-> WhiteBalance(sumR, all),
      wbG  |-> WhiteBalance(sumG, all),
      wbB  |-> WhiteBalance(sumB, all),
      temp |-> TempCorr(sumR, sumG, sumB, SampleCount(imgWidth, imgHeight))]

(***************************************************************************)
(* Lightness, lines 131-155, in fixed point: a corrected channel in        *)
(* hundredths of a byte, linear light in units of 10^-5, luminance in      *)
(* units of 10^-9, L* in thousandths.                                      *)
(***************************************************************************)

\* srgbToLinear(c) for c = 0..255 (lines 132-135), in units of 10^-5.
LinearTable ==
  <<
     0, 30, 61, 91, 121, 152, 182, 212, 243, 273, 304, 335,
     368, 402, 439, 478, 518, 561, 605, 651, 700, 750, 802, 857,
     913, 972, 1033, 1096, 1161, 1229, 1298, 1370, 1444, 1521, 1600, 1681,
     1764, 1850, 1938, 2029, 2122, 2217, 2315, 2416, 2519, 2624, 2732, 2843,
     2956, 3071, 3190, 3310, 3434, 3560, 3689, 3820, 3955, 4092, 4231, 4374,
     4519, 4667, 4817, 4971, 5127, 5286, 5448, 5613, 5781, 5951, 6125, 6301,
     6480, 6663, 6848, 7036, 7227, 7421, 7619, 7819, 8022, 8228, 8438, 8650,
     8866, 9084, 9306, 9531, 9759, 9990, 10224, 10462, 10702, 10946, 11193, 11444,
     11697, 11954, 12214, 12477, 12744, 13014, 13287, 13563, 13843, 14126, 14413, 14703,
     14996, 15293, 15593, 15896, 16203, 16513, 16827, 17144, 17465, 17789, 18116, 18447,
     18782, 19120, 19462, 19807, 20156, 20508, 20864, 21223, 21586, 21953, 22323, 22697,
     23074, 23455, 23840, 24228, 24620, 25016, 25415, 25818, 26225, 26636, 27050, 27468,
     27889, 28315, 28744, 29177, 29614, 30054, 30499, 30947, 31399, 31855, 32314, 32778,
     33245, 33716, 34191, 34670, 35153, 35640, 36131, 36625, 37124, 37626, 38133, 38643,
     39157, 39676, 40198, 40724, 41254, 41789, 42327, 42869, 43415, 43966, 44520, 45079,
     45641, 46208, 46778, 47353, 47932, 48515, 49102, 49693, 50289, 50888, 51492, 52100,
     52712, 53328, 53948, 54572, 55201, 55834, 56471, 57112, 57758, 58408, 59062, 59720,
     60383, 61050, 61721, 62396, 63076, 63760, 64448, 65141, 65837, 66539, 67244, 67954,
     68669, 69387, 70110, 70838, 71569, 72306, 73046, 73791, 74540, 75294, 76052, 76815,
     77582, 78354, 79130, 79910, 80695, 81485, 82279, 83077, 83880, 84687, 85499, 86316,
     87137, 87962, 88792, 89627, 90466, 91310, 92158, 93011, 93869, 94731, 95597, 96469,
     97345, 98225, 99110, 100000 >>

\* Math.min(255, v * wb * tempCorr) (lines 140-142), in hundredths.
Corrected(v, wb, temp) == Min(25500, (v * wb[1] * temp) \div wb[2])

\* srgbToLinear of a corrected channel: the table, linearly interpolated
\* between two bytes.
SrgbToLinear(c100) ==
  LET lo == c100 \div 100
      fr == c100 % 100
  IN IF fr = 0 THEN LinearTable[lo + 1]
     ELSE LinearTable[lo + 1]
          + ((LinearTable[lo + 2] - LinearTable[lo + 1]) * fr) \div 100

RECURSIVE CbrtSearch(_, _, _)
CbrtSearch(n, lo, hi) ==
  IF lo = hi THEN lo
  ELSE LET mid == (lo + hi + 1) \div 2
       IN IF mid * mid * mid <= n THEN CbrtSearch(n, mid, hi)
          ELSE CbrtSearch(n, lo, mid - 1)

\* Math.cbrt(y) (line 153) for y in units of 10^-9, in units of 10^-5.
Cbrt5(y9) ==
  LET k == CbrtSearch(y9, 0, 1000)
  IN k * 100 + ((y9 - k * k * k) * 100) \div (3 * k * k + 3 * k + 1)

\* The threshold written as 0.08856.
LabLLateThreshold(y9) ==
  IF y9 > 88560000 THEN (116 * Cbrt5(y9)) \div 100 - 16000
  ELSE (9033 * (y9 \div 1000)) \div 10000

\* Lines 153-154: y > 0.008856 ? 116 * cbrt(y) - 16 : 903.3 * y.
LabL(y9) ==
  IF y9 > 8856000 THEN (116 * Cbrt5(y9)) \div 100 - 16000
  ELSE (9033 * (y9 \div 1000)) \div 10000

\* rgbToLabL(r, g, b), lines 138-155.
RgbToLabL(r, g, b, cal) ==
  LET lr == SrgbToLinear(Corrected(r, cal.wbR, cal.temp[1]))
      lg == SrgbToLinear(Corrected(g, cal.wbG, cal.temp[2]))
      lb == SrgbToLinear(Corrected(b, cal.wbB, cal.temp[3]))
  IN LabL(2126 * lr + 7152 * lg + 722 * lb)

(***************************************************************************)
(* Per-cell lightness, lines 157-172.                                      *)
(***************************************************************************)

\* L* of the pixel at column cx, row cy: index = (cy * imgWidth + cx) * 4.
PixelL(data, imgWidth, cx, cy, cal) ==
  LET index == (cy * imgWidth + cx) * 4
  IN RgbToLabL(data[index + 1], data[index + 2], data[index + 3], cal)

RECURSIVE SumBlock(_, _, _, _, _, _, _, _)
SumBlock(data, imgWidth, cal, x0, y0, cellWidth, lo, hi) ==
  IF lo = hi
  THEN PixelL(data, imgWidth, x0 + (lo % cellWidth), y0 + (lo \div cellWidth), cal)
  ELSE LET mid == (lo + hi) \div 2
       IN SumBlock(data, imgWidth, cal, x0, y0, cellWidth, lo, mid)
          + SumBlock(data, imgWidth, cal, x0, y0, cellWidth, mid + 1, hi)

\* The pixels (as cy * imgWidth + cx) the loops of lines 163-164 read for
\* cell (x, y).
Block(x, y, cellWidth, cellHeight, imgWidth) ==
  {cy * imgWidth + cx :
     <<cx, cy>> \in ((x * cellWidth)..(x * cellWidth + cellWidth - 1))
                    \X ((y * cellHeight)..(y * cellHeight + cellHeight - 1))}

\* The rows of a block taken cellWidth apart.
CellMeanSquare(data, imgWidth, cal, x, y, cellWidth, cellHeight) ==
  SumBlock(data, imgWidth, cal, x * cellWidth, y * cellWidth, cellWidth,
           0, cellWidth * cellHeight - 1)
  \div (cellWidth * cellHeight)

\* cellBrightness[y * asciiWidth + x] = totalL / pixelCount over the
\* block of cellWidth x cellHeight pixels of cell (x, y).
CellMean(data, imgWidth, cal, x, y, cellWidth, cellHeight) ==
  SumBlock(data, imgWidth, cal, x * cellWidth, y * cellHeight, cellWidth,
           0, cellWidth * cellHeight - 1)
  \div (cellWidth * cellHeight)

\* new Float32Array(n): n zeros.
Float32Array(n) == SubSeq([idx \in 1..n |-> 0], 1, n)

\* The Float32Array cellBrightness after the loops of lines 159-172;
\* entry idx of the array is element idx + 1 of the sequence.  The loops
\* write nothing when height or asciiWidth is not positive.
CellBrightness(data, imgWidth, cal, asciiWidth, height, cellWidth, cellHeight) ==
  IF height <= 0 \/ asciiWidth <= 0 THEN Float32Array(asciiWidth * height)
  ELSE SubSeq([k \in 1..(asciiWidth * height) |->
                 CellMean(data, imgWidth, cal, (k - 1) % asciiWidth,
                          (k - 1) \div asciiWidth, cellWidth, cellHeight)],
              1, asciiWidth * height)

(***************************************************************************)
(* Unsharp masking and character mapping, lines 174-207.                   *)
(***************************************************************************)

\* A neighbourhood tested on the index into cellBrightness alone.
NeighboursWrapping(x, y, asciiWidth, height) ==
  {ny * asciiWidth + nx :
     <<nx, ny>> \in {c \in ((x - 1)..(x + 1)) \X ((y - 1)..(y + 1)) :
                       /\ c[2] * asciiWidth + c[1] >= 0
                       /\ c[2] * asciiWidth + c[1] < asciiWidth * height}}

\* The cells of the 3x3 neighbourhood of (x, y) that lie in the grid
\* (lines 186-194), as indices into cellBrightness.
Neighbours(x, y, asciiWidth, height) ==
  {ny * asciiWidth + nx :
     <<nx, ny>> \in {c \in ((x - 1)..(x + 1)) \X ((y - 1)..(y + 1)) :
                       /\ c[2] >= 0 /\ c[2] < height
                       /\ c[1] >= 0 /\ c[1] < asciiWidth}}

RECURSIVE SumCells(_, _)
SumCells(cells, S) ==
  IF S = {} THEN 0
  ELSE LET c == CHOOSE c \in S : TRUE
       IN cells[c + 1] + SumCells(cells, S \ {c})

\* Scaling by the ramp's length instead of its last index.
CharIndexFull(original, blurSum, blurCount, length) ==
  LET full  == 100000 * 2 * blurCount
      sharp == Max(0, Min(full, 3 * blurCount * original - blurSum))
  IN (sharp * length) \div full

\* The blur taken as blurSum / 9, as if the grid were padded with zeros.
CharIndexPadded(original, blurSum, blurCount, length) ==
  LET full  == 100000 * 2 * 9
      sharp == Max(0, Min(full, 3 * 9 * original - blurSum))
  IN (sharp * (length - 1)) \div full

\* Lines 197-201.  With blurred = blurSum / blurCount and sharpenK = 0.5,
\* sharpened * 2 * blurCount = 3 * blurCount * original - blurSum, clamped
\* to [0, 100]; charIndex = floor(sharpened / 100 * (length - 1)).
CharIndex(original, blurSum, blurCount, length) ==
  LET full  == 100000 * 2 * blurCount
      sharp == Max(0, Min(full, 3 * blurCount * original - blurSum))
  IN (sharp * (length - 1)) \div full

\* The character pushed for cell (x, y), line 202.
CellChar(cells, x, y, asciiWidth, height, charset) ==
  LET nb == Neighbours(x, y, asciiWidth, height)
  IN charset[CharIndex(cells[y * asciiWidth + x + 1], SumCells(cells, nb),
                       Cardinality(nb), Len(charset)) + 1]

NewLine == 10

\* blurSum and blurCount of every cell (lines 184-194), in the order of
\* cellBrightness.
Blur(cells, asciiWidth, height) ==
  IF height <= 0 \/ asciiWidth <= 0 THEN <<>>
  ELSE SubSeq([k \in 1..(asciiWidth * height) |->
                 LET nb == Neighbours((k - 1) % asciiWidth,
                                      (k - 1) \div asciiWidth, asciiWidth, height)
                 IN <<SumCells(cells, nb), Cardinality(nb)>>],
              1, asciiWidth * height)

\* parts.join(''): for every row, asciiWidth characters and a newline.
RenderText(cells, asciiWidth, height, charset) ==
  IF height <= 0 \/ asciiWidth <= 0 THEN <<>>
  ELSE SubSeq([k \in 1..(height * (asciiWidth + 1)) |->
                 LET y == (k - 1) \div (asciiWidth + 1)
                     x == (k - 1) % (asciiWidth + 1)
                 IN IF x = asciiWidth THEN NewLine
                    ELSE CellChar(cells, x, y, asciiWidth, height, charset)],
              1, height * (asciiWidth + 1))

(***************************************************************************)
(* The registry of ramps, constants/character-sets.ts.                     *)
(***************************************************************************)
CHARACTER_SETS ==
  [DOTS     |-> <<46>>,
   MINIMAL  |-> <<32, 46, 58, 45, 61, 43, 42, 35, 37, 64>>,
   STANDARD |-> <<32, 46, 39, 96, 94, 34, 44, 58, 59, 73, 108, 33, 105, 62,
                  60, 126, 43, 95, 45, 63, 93, 91, 125, 123, 49, 41, 40, 124,
                  92, 47, 116, 102, 106, 114, 120, 110, 117, 118, 99, 122,
                  88, 89, 85, 74, 67, 76, 81, 48, 79, 90, 109, 119, 113, 112,
                  100, 98, 107, 104, 97, 111, 42, 35, 77, 87, 38, 56, 37, 66,
                  64, 36>>,
   BLOCKS   |-> <<32, 9617, 9618, 9619, 9608>>]

DEFAULT_CHARSET == "STANDARD"

(***************************************************************************)
(* updateAsciiOutput(imageData, maskData), lines 58-208, as the record of  *)
(* what one call does: its locals, what it leaves in the store, and        *)
(* whether it throws.  store is [asciiWidth, selectedCharset,              *)
(* previousMaskData, asciiOutput]; maskData is Null or <<ImageData>>.      *)
(***************************************************************************)
Conversion(data, imgWidth, imgHeight, asciiWidth, charset) ==
  LET cellWidth  == CellWidth(imgWidth, asciiWidth)
      cellHeight == CellHeight(cellWidth)
      height     == GridHeight(imgHeight, cellHeight)
      threw      == AllocationThrows(asciiWidth, height)
      cal        == Calibrate(data, imgWidth, imgHeight)
      cells      == CellBrightness(data, imgWidth, cal, asciiWidth, height,
                                   cellWidth, cellHeight)
  IN [threw |-> threw,
      cellWidth |-> cellWidth, cellHeight |-> cellHeight, height |-> height,
      cal |-> cal,
      cells |-> IF threw THEN <<>> ELSE cells,
      blur |-> IF threw THEN <<>> ELSE Blur(cells, asciiWidth, height),
      text |-> IF threw THEN <<>>
               ELSE RenderText(cells, asciiWidth, height, charset)]

\* A store that forgets the previous mask on a call without a mask.
PreviousMaskDataReset(store, maskData, smoothedMask) ==
  IF maskData = Null THEN Null
  ELSE StoredMask(maskData[1], smoothedMask)

\* previousMaskData after the call: line 78 is inside if (maskData).
PreviousMaskDataAfter(store, maskData, smoothedMask) ==
  IF maskData = Null THEN store.previousMaskData
  ELSE StoredMask(maskData[1], smoothedMask)

\* The attenuation written through the caller's own array.
MaskedBufferShared == "imageData.data"

\* Lines 65-69: masked.data is a new Uint8ClampedArray(imageData.data), an
\* array of its own.
MaskedBuffer == "masked.data"

\* Line 72: smoothedMask is a new Uint8ClampedArray(maskData.data).
SmoothedBuffer == "smoothedMask"

\* The bytes of the caller's array `buffer` once the call has returned:
\* the bytes written through `written` when both are the same array, its
\* bytes at the call otherwise.
BufferAfter(buffer, bytes, written, result) ==
  IF written = buffer THEN result ELSE bytes

\* A frame without a mask attenuated by the mask kept from an earlier frame.
ProcessedImageDataSticky(store, imageData, maskData, smoothedMask) ==
  IF maskData # Null THEN MaskedData(imageData.data, smoothedMask)
  ELSE IF store.previousMaskData # Null
  THEN MaskedData(imageData.data, store.previousMaskData[1])
  ELSE imageData.data

\* The bytes of processedImageData, lines 63-87: the frame's own bytes
\* without a mask, the attenuated copy with one.
ProcessedImageData(store, imageData, maskData, smoothedMask) ==
  IF maskData = Null THEN imageData.data
  ELSE MaskedData(imageData.data, smoothedMask)

UpdateAsciiOutput(store, imageData, maskData) ==
  LET charset      == CHARACTER_SETS[store.selectedCharset]
      smoothedMask == IF maskData = Null THEN <<>>
                      ELSE SmoothedMask(maskData[1], store.previousMaskData)
      processed    == ProcessedImageData(store, imageData, maskData, smoothedMask)
      conv         == Conversion(processed, imageData.width, imageData.height,
                                 store.asciiWidth, charset)
  IN [threw            |-> conv.threw,
      smoothedMask     |-> smoothedMask,
      processed        |-> processed,
      height           |-> conv.height,
      cellWidth        |-> conv.cellWidth,
      cal              |-> conv.cal,
      cells            |-> conv.cells,
      blur             |-> conv.blur,
      imageAfter       |-> IF maskData = Null THEN imageData.data
                           ELSE BufferAfter("imageData.data", imageData.data,
                                            MaskedBuffer, processed),
      maskAfter        |-> IF maskData = Null THEN <<>>
                           ELSE BufferAfter("maskData.data", maskData[1].data,
                                            SmoothedBuffer, smoothedMask),
      previousMaskData |-> PreviousMaskDataAfter(store, maskData, smoothedMask),
      asciiOutput      |-> IF conv.threw THEN store.asciiOutput ELSE conv.text]

(***************************************************************************)
(* The frames and masks the model draws its inputs from.  An ImageData is  *)
(* [width, height, data], data holding 4 bytes (R, G, B, A) per pixel.     *)
(***************************************************************************)
ImageData(width, height, pixel) ==
  [width  |-> width,
   height |-> height,
   data   |-> Uint8ClampedArray(
               [k \in 1..(4 * width * height) |->
                  pixel[((k - 1) \div 4) % width, ((k - 1) \div 4) \div width]
                    [((k - 1) % 4) + 1]])]

\* A frame of one colour.
Uniform(width, height, rgb) ==
  ImageData(width, height,
            [x \in 0..(width - 1), y \in 0..(height - 1) |-> rgb \o <<255>>])

\* A frame whose left half has one colour and whose right half another.
Halves(width, height, left, right) ==
  ImageData(width, height,
            [x \in 0..(width - 1), y \in 0..(height - 1) |->
               (IF 2 * x < width THEN left ELSE right) \o <<255>>])

\* A mask as the segmentation model draws it: the confidence of pixel
\* (x, y), taken in turn from levels, in the three colour channels.
MaskImage(width, height, levels) ==
  ImageData(width, height,
            [x \in 0..(width - 1), y \in 0..(height - 1) |->
               <<levels[((x + 2 * y) % Len(levels)) + 1],
                 levels[((x + 2 * y) % Len(levels)) + 1],
                 levels[((x + 2 * y) % Len(levels)) + 1], 255>>])

Frames ==
  {Uniform(8, 8, <<128, 128, 128>>),
   Halves(4, 4, <<230, 220, 200>>, <<20, 30, 90>>),
   Uniform(2, 4, <<200, 120, 40>>)}

Masks ==
  {MaskImage(8, 8, <<255, 0, 128>>),
   MaskImage(4, 4, <<255, 0, 128>>),
   MaskImage(4, 4, <<64, 201, 7, 36>>)}

\* The widths updateAppState({ asciiWidth }) is given: the two
\* degenerate ones and two that divide the frames.
AsciiWidths == {0 - 1, 0, 2, 4}

Charsets == {"STANDARD", "DOTS"}

\* What the video shows and what the segmentation model returns in the
\* render loop.
LoopFrames ==
  {Halves(4, 4, <<230, 220, 200>>, <<20, 30, 90>>),
   Uniform(2, 4, <<200, 120, 40>>)}

LoopMasks ==
  {MaskImage(4, 4, <<255, 0, 128>>), MaskImage(4, 4, <<64, 201, 7, 36>>)}

\* A canvas just resized: every byte 0.
ClearedCanvas(width, height) ==
  [width |-> width, height |-> height,
   data |-> Uint8ClampedArray([k \in 1..(4 * width * height) |-> 0])]

(***************************************************************************)
(* Bounds of the model.                                                    *)
(***************************************************************************)

\* Calls of startWebcam in one run.
MaxStarts == 2

\* Display refreshes in one run, and the time between two of them (ms).
MaxTicks == 3

TickMs == 17

\* The refreshes followed when one start is followed alone.
MaxLoopTicks == 6

(***************************************************************************)
(* State.  The store's fields keep their names (showPerfOverlay, which no  *)
(* action reads, is left out).                                             *)
(***************************************************************************)
VARIABLES
  isWebcamActive, webcamError, videoRef, streamRef, canvasRef, maskCanvasRef,
  segmenter, segmentationLoading, animationFrameId,
  asciiOutput, asciiWidth, selectedCharset, previousMaskData, perfMetrics,
  \* the browser: the video element's srcObject, the streams getUserMedia
  \* has returned (TRUE while their tracks run), the startWebcam calls
  \* begun and those awaiting getUserMedia (each with whether it began
  \* after a stopWebcam), the render loops started (one closure of
  \* startRenderLoop each), the mask canvas, the clock
  srcObject, streams, startsBegun, pendingStarts, loops, maskCanvas, now,
  \* history: the last call of updateAsciiOutput (arguments, locals,
  \* outcome), the data of the two masks supplied last (newest first), and
  \* what has happened to capture so far
  call, lastSupplied, session

configVars == <<asciiWidth, selectedCharset>>

refVars == <<videoRef, canvasRef, maskCanvasRef>>

webcamVars == <<isWebcamActive, webcamError, streamRef, segmenter,
                segmentationLoading, srcObject, streams, startsBegun,
                pendingStarts>>

loopVars == <<animationFrameId, loops, maskCanvas, perfMetrics>>

pipeVars == <<asciiOutput, previousMaskData, call, lastSupplied>>

vars == <<configVars, refVars, webcamVars, loopVars, pipeVars, now, session>>

\* The initial state of the store (part_003 lines 58-73), and a browser
\* with nothing running.
Init ==
  /\ isWebcamActive = FALSE
  /\ webcamError = Null
  /\ videoRef = Null
  /\ streamRef = Null
  /\ canvasRef = Null
  /\ maskCanvasRef = Null
  /\ segmenter = Null
  /\ segmentationLoading = TRUE
  /\ animationFrameId = Null
  /\ asciiOutput = <<>>
  /\ asciiWidth = 120
  /\ selectedCharset = DEFAULT_CHARSET
  /\ previousMaskData = Null
  /\ perfMetrics = Null
  /\ srcObject = Null
  /\ streams = <<>>
  /\ startsBegun = 0
  /\ pendingStarts = <<>>
  /\ loops = <<>>
  /\ maskCanvas = Null
  /\ now = 0
  /\ call = Null
  /\ lastSupplied = <<>>
  /\ session = [stopped |-> FALSE, restarted |-> FALSE, masked |-> FALSE,
                released |-> FALSE, starts |-> MaxStarts, ticks |-> MaxTicks]

\* What get() returns to updateAsciiOutput.
Store ==
  [asciiWidth |-> asciiWidth, selectedCharset |-> selectedCharset,
   previousMaskData |-> previousMaskData, asciiOutput |-> asciiOutput]

\* The data of the n-th most recent mask supplied so far, if any.
Supplied(n) == IF Len(lastSupplied) >= n THEN Some(lastSupplied[n]) ELSE Null

\* One call of updateAsciiOutput(imageData, maskData) on the store st:
\* what it leaves in the store and in the history.
Invoke(st, imageData, maskData) ==
  \E r \in {UpdateAsciiOutput(st, imageData, maskData)} :
     /\ previousMaskData' = r.previousMaskData
     /\ asciiOutput' = r.asciiOutput
     /\ call' = Some([imageData    |-> imageData,
                      maskData     |-> maskData,
                      asciiWidth   |-> st.asciiWidth,
                      charset      |-> st.selectedCharset,
                      previous     |-> st.previousMaskData,
                      earlier      |-> Supplied(1),
                      before       |-> Supplied(2),
                      afterRestart |-> session.restarted /\ ~session.masked,
                      threw        |-> r.threw,
                      cal          |-> r.cal,
                      cells        |-> r.cells,
                      blur         |-> r.blur,
                      imageAfter   |-> r.imageAfter,
                      maskAfter    |-> r.maskAfter,
                      smoothedMask |-> r.smoothedMask,
                      processed    |-> r.processed])
     /\ lastSupplied' = IF maskData = Null THEN lastSupplied
                        ELSE <<maskData[1].data>>
                             \o SubSeq(lastSupplied, 1, Min(1, Len(lastSupplied)))
     /\ session' = IF maskData = Null THEN session
                   ELSE [session EXCEPT !.masked = TRUE]

(***************************************************************************)
(* The store's actions called directly.                                    *)
(***************************************************************************)

\* updateAppState({ asciiWidth: g }), the configuration being chosen before
\* capture is first started.
SetAsciiWidth ==
  \E g \in AsciiWidths :
    /\ startsBegun = 0
    /\ asciiWidth' = g
    /\ UNCHANGED <<selectedCharset, refVars, webcamVars, loopVars, pipeVars,
                   now, session>>

\* updateAsciiOutput(imageData, maskData) with a mask, or without one.
UpdateAsciiOutputCall ==
  \E imageData \in Frames :
    \E maskData \in {Null} \cup {Some(m) : m \in Masks} :
      /\ Invoke(Store, imageData, maskData)
      /\ UNCHANGED <<configVars, refVars, webcamVars, loopVars, now>>

\* The pipeline alone: a configuration, then calls of updateAsciiOutput.
InitPipeline ==
  /\ Init!1 /\ Init!2 /\ Init!3 /\ Init!4 /\ Init!5 /\ Init!6 /\ Init!7
  /\ Init!8 /\ Init!9 /\ Init!10
  /\ asciiWidth \in AsciiWidths \cup {120}
  /\ selectedCharset \in Charsets
  /\ Init!13 /\ Init!14 /\ Init!15 /\ Init!16 /\ Init!17 /\ Init!18
  /\ Init!19 /\ Init!20 /\ Init!21 /\ Init!22 /\ Init!23 /\ Init!24

NextPipeline == UpdateAsciiOutputCall

SpecPipeline == InitPipeline /\ [][NextPipeline]_vars

(***************************************************************************)
(* The page (main.tsx) and the webcam.                                     *)
(***************************************************************************)

\* The ref callbacks of the page's first commit (main.tsx lines 56, 60,
\* 111): updateAppState({ canvasRef }), ({ maskCanvasRef }), ({ videoRef }).
Mount ==
  /\ videoRef = Null
  /\ canvasRef' = Some("canvas")
  /\ maskCanvasRef' = Some("maskCanvas")
  /\ videoRef' = Some("video")
  /\ UNCHANGED <<configVars, webcamVars, loopVars, pipeVars, now, session>>

\* startWebcam up to its await of getUserMedia (part_003 lines 349-369),
\* initSegmentation (lines 230-259) included: the constructor of the
\* segmenter succeeds, or throws into the catch of line 255.
StartWebcam ==
  /\ startsBegun < session.starts
  /\ startsBegun' = startsBegun + 1
  /\ IF videoRef = Null
     THEN /\ webcamError' = Some("Video element not initialized")
          /\ UNCHANGED <<segmenter, segmentationLoading, pendingStarts>>
     ELSE /\ webcamError' = Null
          /\ pendingStarts' = Append(pendingStarts, session.stopped)
          /\ IF segmenter = Null
             THEN /\ segmentationLoading' = FALSE
                  /\ \/ segmenter' = Some("SelfieSegmentation")
                     \/ UNCHANGED segmenter
             ELSE UNCHANGED <<segmenter, segmentationLoading>>
  /\ session' = [session EXCEPT !.released = FALSE]
  /\ UNCHANGED <<isWebcamActive, streamRef, srcObject, streams>>
  /\ UNCHANGED <<configVars, refVars, loopVars, pipeVars, now>>

\* A loop as startRenderLoop creates it (lines 269-271, 338): its closure
\* variables, and its frame callback requested.  sends is the history of
\* the loop's calls of segmenter.send: how each one settled; pending counts
\* the frame callbacks of the loop that are requested and have neither run
\* nor been cancelled.
NewLoop ==
  [state |-> "scheduled", requestedAt |-> now, lastFrameTime |-> 0,
   aspectChecked |-> FALSE, frame |-> Null, sends |-> <<>>, pending |-> 1]

\* The remaining pending starts once start k has settled.
Settled(k) ==
  SubSeq(pendingStarts, 1, k - 1) \o SubSeq(pendingStarts, k + 1, Len(pendingStarts))

\* getUserMedia resolves and startWebcam runs to its end (lines 371-377),
\* startRenderLoop (lines 261-339) included.
GetUserMediaResolve ==
  \E k \in 1..Len(pendingStarts) :
    /\ pendingStarts' = Settled(k)
    /\ streams' = Append(streams, TRUE)
    /\ srcObject' = Some(Len(streams) + 1)
    /\ streamRef' = Some(Len(streams) + 1)
    /\ isWebcamActive' = TRUE
    /\ IF canvasRef = Null \/ maskCanvasRef = Null
       THEN UNCHANGED <<loops, animationFrameId>>
       ELSE /\ loops' = Append(loops, NewLoop)
            /\ animationFrameId' = Some(Len(loops) + 1)
    /\ session' = IF pendingStarts[k]
                  THEN [session EXCEPT !.restarted = TRUE, !.masked = FALSE]
                  ELSE session
    /\ UNCHANGED <<webcamError, segmenter, segmentationLoading, startsBegun,
                   maskCanvas, perfMetrics>>
    /\ UNCHANGED <<configVars, refVars, pipeVars, now>>

\* getUserMedia rejects: the catch of lines 378-384.
GetUserMediaReject ==
  \E k \in 1..Len(pendingStarts) :
    /\ pendingStarts' = Settled(k)
    /\ webcamError' = Some("Failed to access webcam")
    /\ isWebcamActive' = FALSE
    /\ UNCHANGED <<streamRef, segmenter, segmentationLoading, srcObject,
                   streams, startsBegun>>
    /\ UNCHANGED <<configVars, refVars, loopVars, pipeVars, now, session>>

\* cancelAnimationFrame(id): the callback with that id, if it has not run
\* yet, never runs.  animationFrameId names the loop that wrote it last,
\* and the id is that of the loop's latest request.
Cancelled(id) ==
  IF id # Null /\ loops[id[1]].state = "scheduled"
  THEN [loops EXCEPT ![id[1]].state = "cancelled", ![id[1]].pending = @ - 1]
  ELSE loops

\* stopWebcam (lines 387-406), stopRenderLoop (lines 341-347) included.
StopWebcam ==
  /\ loops' = Cancelled(animationFrameId)
  /\ animationFrameId' = Null
  /\ streams' = IF streamRef = Null THEN streams
                ELSE [streams EXCEPT ![streamRef[1]] = FALSE]
  /\ srcObject' = IF videoRef = Null THEN srcObject ELSE Null
  /\ streamRef' = Null
  /\ isWebcamActive' = FALSE
  /\ segmenter' = Null
  /\ segmentationLoading' = TRUE
  /\ session' = [session EXCEPT !.stopped = TRUE, !.released = TRUE]
  /\ UNCHANGED <<webcamError, startsBegun, pendingStarts, maskCanvas,
                 perfMetrics>>
  /\ UNCHANGED <<configVars, refVars, pipeVars, now>>

(***************************************************************************)
(* The render loop, part_003 lines 261-339.                                *)
(***************************************************************************)
\* A cadence of half the length.
targetFrameMsHalved == 33 \div 2

targetFrameMs == 33

\* set({ animationFrameId: requestAnimationFrame(captureFrame) }) by loop i
\* (lines 275, 335), lp being the loop's closure as the callback leaves it.
Request(i, lp) ==
  /\ loops' = [loops EXCEPT ![i] = [lp EXCEPT !.state = "scheduled",
                                              !.requestedAt = now,
                                              !.frame = Null,
                                              !.pending = @ + 1]]
  /\ animationFrameId' = Some(i)

\* Lines 315-335 for loop i: the conversion, then lastFrameTime, the
\* performance snapshot and the next request.  A conversion that throws
\* ends the callback there.
Publish(i, lp, imageData, maskData, timestamp, width) ==
  /\ Invoke([Store EXCEPT !.asciiWidth = width], imageData, maskData)
  /\ IF call'[1].threw
     THEN /\ loops' = [loops EXCEPT ![i] = [lp EXCEPT !.state = "dead",
                                                      !.frame = Null]]
          /\ UNCHANGED <<animationFrameId, perfMetrics>>
     ELSE /\ Request(i, [lp EXCEPT !.lastFrameTime = timestamp])
          /\ perfMetrics' =
               Some([resolution |-> <<imageData.width, imageData.height>>,
                     gridSize   |-> <<width,
                                      GridHeight(imageData.height,
                                        CellHeight(CellWidth(imageData.width,
                                                             width)))>>])

\* The closure of a loop whose requested frame callback has begun to run.
Running(lp) == [lp EXCEPT !.pending = @ - 1]

\* The frame callback of loop i up to its await of segmenter.send, or to
\* its end when it does not await (lines 273-307).
CaptureFrame ==
  \E i \in 1..Len(loops) :
    /\ loops[i].state = "scheduled"
    /\ loops[i].requestedAt < now
    /\ \/ \* lines 274-277: too early
          /\ now - loops[i].lastFrameTime < targetFrameMs
          /\ Request(i, Running(loops[i]))
          /\ UNCHANGED <<configVars, maskCanvas, perfMetrics, pipeVars, session>>
       \/ \* line 279: the video has no frame yet
          /\ now - loops[i].lastFrameTime >= targetFrameMs
          /\ Request(i, Running(loops[i]))
          /\ UNCHANGED <<configVars, maskCanvas, perfMetrics, pipeVars, session>>
       \/ \* lines 280-316
          /\ now - loops[i].lastFrameTime >= targetFrameMs
          /\ srcObject # Null
          /\ \E imageData \in LoopFrames :
               \E width \in {IF ~loops[i].aspectChecked
                                 /\ imageData.height > imageData.width
                              THEN 80 ELSE asciiWidth} :
                 /\ asciiWidth' = width
                 /\ maskCanvas' = Some(ClearedCanvas(imageData.width,
                                                     imageData.height))
                 /\ IF segmenter # Null /\ ~segmentationLoading
                    THEN /\ loops' =
                              [loops EXCEPT ![i] =
                                 [@ EXCEPT !.state = "awaiting",
                                           !.pending = @ - 1,
                                           !.aspectChecked = TRUE,
                                           !.frame = Some([imageData |-> imageData,
                                                           timestamp |-> now])]]
                         /\ UNCHANGED <<animationFrameId, perfMetrics,
                                        pipeVars, session>>
                    ELSE Publish(i, [Running(loops[i]) EXCEPT !.aspectChecked = TRUE],
                                 imageData, Null, now, width)
          /\ UNCHANGED selectedCharset
    /\ UNCHANGED <<refVars, webcamVars, now>>

\* segmenter.send settles and the frame callback of loop i runs to its end
\* (lines 307-335): send rejects; or the results callback (lines 242-252)
\* draws the model's mask on the mask canvas; or it draws nothing.
SegmentationDone ==
  \E i \in 1..Len(loops) :
    /\ loops[i].state = "awaiting"
    /\ \/ /\ Publish(i, [loops[i] EXCEPT !.sends = Append(@, "rejected")],
                      loops[i].frame[1].imageData, Null,
                      loops[i].frame[1].timestamp, asciiWidth)
          /\ UNCHANGED maskCanvas
       \/ \E m \in LoopMasks :
            /\ maskCanvas' = Some(m)
            /\ Publish(i, [loops[i] EXCEPT !.sends = Append(@, "resolved")],
                       loops[i].frame[1].imageData, Some(m),
                       loops[i].frame[1].timestamp, asciiWidth)
       \/ /\ Publish(i, [loops[i] EXCEPT !.sends = Append(@, "empty")],
                      loops[i].frame[1].imageData, maskCanvas,
                      loops[i].frame[1].timestamp, asciiWidth)
          /\ UNCHANGED maskCanvas
    /\ UNCHANGED <<configVars, refVars, webcamVars, now>>

\* The display refreshes: the frame callbacks requested before it may run.
\* The clock is read by frame callbacks only.
Tick ==
  /\ now < session.ticks * TickMs
  /\ \E i \in 1..Len(loops) :
       loops[i].state = "scheduled" /\ loops[i].requestedAt = now
  /\ now' = now + TickMs
  /\ UNCHANGED <<configVars, refVars, webcamVars, loopVars, pipeVars, session>>

Next ==
  \/ SetAsciiWidth
  \/ Mount
  \/ StartWebcam
  \/ GetUserMediaResolve
  \/ GetUserMediaReject
  \/ StopWebcam
  \/ CaptureFrame
  \/ SegmentationDone
  \/ Tick

Spec == Init /\ [][Next]_vars

(***************************************************************************)
(* A static mask: a mask of one confidence level, fed twice.               *)
(***************************************************************************)
Levels == 0..255

StaticFrame == Uniform(1, 2, <<128, 128, 128>>)

LevelMask(c) == MaskImage(1, 2, <<c>>)

InitStatic ==
  /\ Init!1 /\ Init!2 /\ Init!3 /\ Init!4 /\ Init!5 /\ Init!6 /\ Init!7
  /\ Init!8 /\ Init!9 /\ Init!10
  /\ asciiWidth = 1
  /\ Init!12 /\ Init!13 /\ Init!14 /\ Init!15 /\ Init!16 /\ Init!17
  /\ Init!18 /\ Init!19 /\ Init!20 /\ Init!21 /\ Init!22 /\ Init!23
  /\ Init!24

\* The first call: a frame with a mask of some level.
FeedMask ==
  /\ call = Null
  /\ \E c \in Levels : Invoke(Store, StaticFrame, Some(LevelMask(c)))
  /\ UNCHANGED <<configVars, refVars, webcamVars, loopVars, now>>

\* The second call: the same frame and the same mask.
FeedSameMask ==
  /\ call # Null
  /\ call[1].earlier = Null
  /\ Invoke(Store, call[1].imageData, call[1].maskData)
  /\ UNCHANGED <<configVars, refVars, webcamVars, loopVars, now>>

NextStatic == FeedMask \/ FeedSameMask

SpecStatic == InitStatic /\ [][NextStatic]_vars

(***************************************************************************)
(* One start of the webcam, followed for more refreshes.                   *)
(***************************************************************************)
InitLoop ==
  /\ Init!1 /\ Init!2 /\ Init!3 /\ Init!4 /\ Init!5 /\ Init!6 /\ Init!7
  /\ Init!8 /\ Init!9 /\ Init!10 /\ Init!11 /\ Init!12 /\ Init!13
  /\ Init!14 /\ Init!15 /\ Init!16 /\ Init!17 /\ Init!18 /\ Init!19
  /\ Init!20 /\ Init!21 /\ Init!22 /\ Init!23
  /\ session = [stopped |-> FALSE, restarted |-> FALSE, masked |-> FALSE,
                released |-> FALSE, starts |-> 1, ticks |-> MaxLoopTicks]

SpecLoop == InitLoop /\ [][Next]_vars

(***************************************************************************)
(* Calibration: frames of one colour, converted without a mask.            *)
(***************************************************************************)
Grays == {Uniform(1, 2, <<v, v, v>>) : v \in 0..255}

\* Warm, cool and balanced colours, and colours with a channel of 0.
Tints ==
  {Uniform(1, 2, rgb) :
     rgb \in {<<200, 120, 40>>, <<250, 250, 199>>, <<20, 30, 90>>,
              <<30, 30, 39>>, <<30, 30, 40>>, <<100, 100, 79>>,
              <<0, 0, 255>>, <<255, 0, 0>>, <<0, 255, 0>>, <<255, 255, 0>>}}

InitCalibration == InitStatic

\* updateAsciiOutput(imageData) for a frame of one colour.
ConvertFrame ==
  /\ \E imageData \in Grays \cup Tints : Invoke(Store, imageData, Null)
  /\ UNCHANGED <<configVars, refVars, webcamVars, loopVars, now>>

NextCalibration == ConvertFrame

SpecCalibration == InitCalibration /\ [][NextCalibration]_vars

(***************************************************************************)
(* Attenuation: one call with a mask of one level on a frame of two pixels *)
(* whose six colour bytes are consecutive levels.                          *)
(***************************************************************************)
SixLevels(j) ==
  ImageData(1, 2, [x \in {0}, y \in {0, 1} |->
                     <<Min(255, 6 * j + 3 * y), Min(255, 6 * j + 3 * y + 1),
                       Min(255, 6 * j + 3 * y + 2), 255>>])

InitAttenuation == InitStatic

\* updateAsciiOutput(imageData, maskData), the first call of a store.
FeedLevels ==
  /\ call = Null
  /\ \E j \in 0..42, c \in Levels :
       Invoke(Store, SixLevels(j), Some(LevelMask(c)))
  /\ UNCHANGED <<configVars, refVars, webcamVars, loopVars, now>>

NextAttenuation == FeedLevels

SpecAttenuation == InitAttenuation /\ [][NextAttenuation]_vars

(***************************************************************************)
(* Lightness: one call on a frame of two cells, the left of a colour and   *)
(* the right of that colour scaled.                                        *)
(***************************************************************************)
Hues == {<<1, 1, 1>>, <<3, 2, 1>>, <<1, 2, 5>>, <<0, 1, 2>>, <<5, 0, 0>>,
         <<2, 5, 1>>}

\* The colour hue scaled by m.
Scale(hue, m) == <<hue[1] * m, hue[2] * m, hue[3] * m>>

\* The greatest factor that keeps hue within a byte.
MaxScale(hue) == 255 \div Max(hue[1], Max(hue[2], hue[3]))

InitLightness ==
  /\ Init!1 /\ Init!2 /\ Init!3 /\ Init!4 /\ Init!5 /\ Init!6 /\ Init!7
  /\ Init!8 /\ Init!9 /\ Init!10
  /\ asciiWidth = 2
  /\ Init!12 /\ Init!13 /\ Init!14 /\ Init!15 /\ Init!16 /\ Init!17
  /\ Init!18 /\ Init!19 /\ Init!20 /\ Init!21 /\ Init!22 /\ Init!23
  /\ Init!24

\* updateAsciiOutput(imageData), the first call of a store.
ConvertScaled ==
  /\ call = Null
  /\ \E hue \in Hues :
       \E m \in 0..MaxScale(hue) :
         \E n \in {m, m + 1, 2 * m, MaxScale(hue)} :
           /\ n \in m..MaxScale(hue)
           /\ Invoke(Store, Halves(2, 2, Scale(hue, m), Scale(hue, n)), Null)
  /\ UNCHANGED <<configVars, refVars, webcamVars, loopVars, now>>

NextLightness == ConvertScaled

SpecLightness == InitLightness /\ [][NextLightness]_vars

(***************************************************************************)
(* Grids: one call on a frame whose colours vary from pixel to pixel, or   *)
(* on a frame of one colour, for grids of several shapes.                  *)
(***************************************************************************)
\* A frame whose channels run over the pixels with slopes a and b from c.
Pattern(width, height, a, b, c) ==
  ImageData(width, height,
            [x \in 0..(width - 1), y \in 0..(height - 1) |->
               <<(a * x + b * y + c) % 256, (a * y + b * x + c) % 256,
                 (a * (x + y) + c) % 256, 255>>])

GridSizes == {<<3, 6>>, <<4, 8>>, <<5, 9>>}

GridWidths == {2, 3, 4}

GridFrames ==
  UNION {{Pattern(s[1], s[2], a, b, c) :
            a \in {0, 7, 90}, b \in {0, 13, 101}, c \in {0, 5, 200}}
         \cup {Uniform(s[1], s[2], rgb) :
                 rgb \in {<<200, 120, 40>>, <<20, 30, 90>>, <<255, 255, 255>>,
                          <<0, 255, 0>>, <<1, 1, 1>>}}
         : s \in GridSizes}

InitGrid ==
  /\ Init!1 /\ Init!2 /\ Init!3 /\ Init!4 /\ Init!5 /\ Init!6 /\ Init!7
  /\ Init!8 /\ Init!9 /\ Init!10
  /\ asciiWidth \in GridWidths
  /\ Init!12 /\ Init!13 /\ Init!14 /\ Init!15 /\ Init!16 /\ Init!17
  /\ Init!18 /\ Init!19 /\ Init!20 /\ Init!21 /\ Init!22 /\ Init!23
  /\ Init!24

\* updateAsciiOutput(imageData), the first call of a store.
ConvertGrid ==
  /\ call = Null
  /\ \E imageData \in GridFrames : Invoke(Store, imageData, Null)
  /\ UNCHANGED <<configVars, refVars, webcamVars, loopVars, now>>

NextGrid == ConvertGrid

SpecGrid == InitGrid /\ [][NextGrid]_vars

(***************************************************************************)
(* Properties.  call describes the last call of updateAsciiOutput.         *)
(***************************************************************************)
MaskedCall == call # Null /\ call[1].maskData # Null

RawMask == call[1].maskData[1].data

\* s is a byte nearest to 0.7 * m + 0.3 * p.
Nearest(s, m, p) == s \in 0..255 /\ (10 * s - (7 * m + 3 * p)) \in (0 - 5)..5

\* The grid height of the last call.
CallHeight ==
  GridHeight(call[1].imageData.height,
             CellHeight(CellWidth(call[1].imageData.width, call[1].asciiWidth)))

\* C1: a call of updateAsciiOutput without a mask leaves previousMaskData
\* as it was and converts the supplied bytes unmodified, and
\* previousMaskData changes only in a call that has a mask.
C1_NoMaskPassThrough ==
  [][/\ (call' # Null /\ call'[1].maskData = Null)
         => /\ previousMaskData' = previousMaskData
            /\ call'[1].previous = previousMaskData
            /\ call'[1].processed = call'[1].imageData.data
     /\ (previousMaskData' # previousMaskData)
         => (call' # Null /\ call'[1].maskData # Null)]_vars

\* A call without a mask made while a previous mask is stored.
C1_Witness ==
  /\ call # Null
  /\ call[1].maskData = Null
  /\ call[1].previous # Null
  /\ previousMaskData = call[1].previous

\* C2: after a call that has a mask, previousMaskData holds the bytes of
\* that mask as supplied, never the smoothed ones, blended or not.
C2_StoresRawMask == MaskedCall => previousMaskData = Some(RawMask)

\* A masked call whose smoothed bytes differ from the mask's.
C2_Witness ==
  /\ MaskedCall
  /\ call[1].smoothedMask # RawMask
  /\ previousMaskData = Some(RawMask)

\* C3: in a call that has a mask, the confidence of every pixel is the byte
\* nearest to 0.7 * mask + 0.3 * previous when a previous mask of the same
\* length is stored, and the mask's own byte otherwise; that confidence is
\* the one the pixel's colour channels are attenuated with.
C3_BlendedConfidence ==
  MaskedCall =>
    /\ Len(call[1].smoothedMask) = Len(RawMask)
    /\ \A i \in 0..((Len(RawMask) \div 4) - 1) :
         /\ IF /\ call[1].previous # Null
               /\ Len(call[1].previous[1]) = Len(RawMask)
            THEN Nearest(call[1].smoothedMask[4 * i + 1], RawMask[4 * i + 1],
                         call[1].previous[1][4 * i + 1])
            ELSE call[1].smoothedMask[4 * i + 1] = RawMask[4 * i + 1]
         /\ \A c \in 1..3 :
              4 * i + c <= Len(call[1].imageData.data)
                => call[1].processed[4 * i + c]
                     = Attenuate(call[1].imageData.data[4 * i + c],
                                 call[1].smoothedMask[4 * i + 1])

\* A masked call blended with a stored mask of the same length, to a
\* confidence that differs from the mask's.
C3_Witness ==
  /\ MaskedCall
  /\ call[1].previous # Null
  /\ Len(call[1].previous[1]) = Len(RawMask)
  /\ call[1].smoothedMask # RawMask
  /\ call[1].smoothedMask[1] # call[1].previous[1][1]

\* C4: the smoothed mask of a call is a function of the call's mask and of
\* the mask supplied last before it, whatever was supplied earlier.
C4_OneStep ==
  MaskedCall =>
    call[1].smoothedMask = SmoothedMask(call[1].maskData[1], call[1].earlier)

\* A third mask of the same size after two masks that differ.
C4_Witness ==
  /\ MaskedCall
  /\ call[1].earlier # Null
  /\ call[1].before # Null
  /\ call[1].before # call[1].earlier
  /\ Len(call[1].before[1]) = Len(RawMask)
  /\ Len(call[1].earlier[1]) = Len(RawMask)
  /\ call[1].smoothedMask # RawMask

\* C5: a mask fed in two consecutive calls is smoothed to itself in the
\* second, for every confidence level.
C5_StaticMask ==
  (MaskedCall /\ call[1].earlier = Some(RawMask))
    => call[1].smoothedMask = RawMask

\* The second call of a mask of level 3, where 0.7 * 3 + 0.3 * 3 in
\* doubles is not 3.
C5_Witness ==
  /\ MaskedCall
  /\ call[1].earlier = Some(RawMask)
  /\ call[1].previous = Some(RawMask)
  /\ RawMask[1] = 3

\* C6: after stopWebcam followed by startWebcam, previousMaskData is
\* absent until a frame with a mask is converted, and the first such
\* frame is composited with its own mask only.
C6_ClearedOnRestart ==
  /\ (session.restarted /\ ~session.masked) => previousMaskData = Null
  /\ (MaskedCall /\ call[1].afterRestart) => call[1].smoothedMask = RawMask

\* C7: with a stored mask of another length, the frame is composited with
\* the current mask alone, the call throws only where the grid makes it
\* throw, and previousMaskData becomes the current mask.
C7_SizeChange ==
  (/\ MaskedCall
   /\ call[1].previous # Null
   /\ Len(call[1].previous[1]) # Len(RawMask))
    => /\ call[1].smoothedMask = RawMask
       /\ call[1].processed = MaskedData(call[1].imageData.data, RawMask)
       /\ call[1].threw = AllocationThrows(call[1].asciiWidth, CallHeight)
       /\ previousMaskData = Some(RawMask)

\* A masked call that finds a stored mask of another length and publishes.
C7_Witness ==
  /\ MaskedCall
  /\ call[1].previous # Null
  /\ Len(call[1].previous[1]) # Len(RawMask)
  /\ ~call[1].threw
  /\ previousMaskData = Some(RawMask)

\* C8: a mask whose dimensions are not the frame's is not applied: no byte
\* of the frame is attenuated, and the text published is that of the frame
\* without a mask.
C8_MismatchedMaskSkipped ==
  (/\ MaskedCall
   /\ \/ call[1].maskData[1].width # call[1].imageData.width
      \/ call[1].maskData[1].height # call[1].imageData.height)
    => /\ call[1].processed = call[1].imageData.data
       /\ ~call[1].threw
            => asciiOutput
                 = Conversion(call[1].imageData.data, call[1].imageData.width,
                              call[1].imageData.height, call[1].asciiWidth,
                              CHARACTER_SETS[call[1].charset]).text

\* C9: with asciiWidth not positive, or a cell width or cell height of 0,
\* the call ends in an error, having divided by no zero, and publishes
\* nothing.
C9_DegenerateGridRefused ==
  (/\ call # Null
   /\ \/ call[1].asciiWidth <= 0
      \/ CellWidth(call[1].imageData.width, call[1].asciiWidth) = 0
      \/ CellHeight(CellWidth(call[1].imageData.width, call[1].asciiWidth)) = 0)
    => /\ call[1].threw
       /\ CellWidth(call[1].imageData.width, call[1].asciiWidth) # Infinity
       /\ CallHeight # Infinity

\* C10: with floor(W / g) >= 1 the text published is
\* floor(H / (2 * floor(W / g))) rows of g characters and a newline each;
\* 640x480 at g = 120 gives 48 rows of 120.
C10_TextShape ==
  /\ CellWidth(640, 120) = 5
  /\ GridHeight(480, CellHeight(CellWidth(640, 120))) = 48
  /\ (/\ call # Null
      /\ call[1].asciiWidth >= 1
      /\ call[1].imageData.width \div call[1].asciiWidth >= 1)
       => /\ ~call[1].threw
          /\ Len(asciiOutput)
               = (call[1].imageData.height
                    \div (2 * (call[1].imageData.width \div call[1].asciiWidth)))
                 * (call[1].asciiWidth + 1)
          /\ \A k \in 1..Len(asciiOutput) :
               (asciiOutput[k] = NewLine) <=> (k % (call[1].asciiWidth + 1) = 0)

\* An 8x8 frame at g = 4: 2 rows of 4 characters.
C10_Witness ==
  /\ call # Null
  /\ call[1].imageData.width = 8
  /\ call[1].imageData.height = 8
  /\ call[1].asciiWidth = 4
  /\ Len(asciiOutput) = 10
  /\ asciiOutput[5] = NewLine
  /\ asciiOutput[10] = NewLine

\* C11: for every ramp of the registry the character index lies in
\* 0..length-1, a sharpened value of 0 gives index 0 and one of 100 gives
\* index length-1, and every character published is one of the selected
\* ramp.
C11_IndexInRamp ==
  /\ \A name \in DOMAIN CHARACTER_SETS :
       /\ CharIndex(0, 0, 1, Len(CHARACTER_SETS[name])) = 0
       /\ CharIndex(100000, 100000, 1, Len(CHARACTER_SETS[name]))
            = Len(CHARACTER_SETS[name]) - 1
       /\ \A o, b \in {0, 1, 25000, 50000, 99999, 100000} :
            \A n \in {1, 4, 6, 9} :
              CharIndex(o, b * n, n, Len(CHARACTER_SETS[name]))
                \in 0..(Len(CHARACTER_SETS[name]) - 1)
  /\ (call # Null /\ ~call[1].threw)
       => \A k \in 1..Len(asciiOutput) :
            \/ asciiOutput[k] = NewLine
            \/ \E j \in 1..Len(CHARACTER_SETS[call[1].charset]) :
                 CHARACTER_SETS[call[1].charset][j] = asciiOutput[k]

\* A text published with the one-character ramp.
C11_Witness ==
  /\ call # Null
  /\ ~call[1].threw
  /\ call[1].charset = "DOTS"
  /\ Len(asciiOutput) > 0
  /\ asciiOutput[1] = 46

\* Every pixel of the frame has equal red, green and blue.
NeutralGray(imageData) ==
  \A p \in 0..((Len(imageData.data) \div 4) - 1) :
    /\ imageData.data[4 * p + 1] = imageData.data[4 * p + 2]
    /\ imageData.data[4 * p + 2] = imageData.data[4 * p + 3]

\* A factor <<numerator, denominator>> equal to 1.
IsOne(factor) == factor[1] = factor[2]

\* C12: for every neutral-gray frame, of every gray level 0..255, the
\* calibration changes nothing: the three white-balance factors are 1 and
\* the three temperature factors are 1.
C12_NeutralGrayNoOp ==
  (call # Null /\ call[1].maskData = Null /\ NeutralGray(call[1].imageData))
    => /\ IsOne(call[1].cal.wbR) /\ IsOne(call[1].cal.wbG) /\ IsOne(call[1].cal.wbB)
       /\ call[1].cal.temp = <<TempNone, TempNone, TempNone>>

\* The sum of channel c over the sampled pixels (every fourth pixel) of the
\* bytes the last call calibrated on, from sample k on.
RECURSIVE SampledFrom(_, _, _)
SampledFrom(data, c, k) ==
  IF 16 * k >= Len(data) THEN 0
  ELSE data[16 * k + c + 1] + SampledFrom(data, c, k + 1)

\* The number of sampled pixels.
Sampled(data) == (Len(data) + 15) \div 16

\* C13: with t = (meanR + meanG) / (meanB + 1), the temperature factors are
\* (0.92, 1, 1.08) when t > 2.5, (1.08, 1, 0.92) when t < 1.5 and (1, 1, 1)
\* otherwise; each white-balance factor is grayMean / meanX when meanX > 0
\* and 1 when meanX = 0; no frame, the all-black one included, divides by
\* zero.
C13_CalibrationFactors ==
  call # Null =>
    LET data == call[1].processed
        n    == Sampled(data)
        sumR == SampledFrom(data, 0, 0)
        sumG == SampledFrom(data, 1, 0)
        sumB == SampledFrom(data, 2, 0)
        cal  == call[1].cal
        Wb(factor, sumX) ==
          /\ factor[2] > 0
          /\ IF sumX > 0
             THEN factor[1] * 3 * sumX = factor[2] * (sumR + sumG + sumB)
             ELSE factor[1] = factor[2]
    IN /\ n > 0 /\ sumB + n > 0
       /\ Wb(cal.wbR, sumR) /\ Wb(cal.wbG, sumG) /\ Wb(cal.wbB, sumB)
       /\ cal.temp[2] = 100
       /\ (10 * (sumR + sumG) > 25 * (sumB + n)) => cal.temp = <<92, 100, 108>>
       /\ (10 * (sumR + sumG) < 15 * (sumB + n)) => cal.temp = <<108, 100, 92>>
       /\ (/\ 10 * (sumR + sumG) <= 25 * (sumB + n)
           /\ 10 * (sumR + sumG) >= 15 * (sumB + n)) => cal.temp = <<100, 100, 100>>

C13_Witness ==
  /\ call # Null
  /\ call[1].imageData = Uniform(1, 2, <<250, 250, 199>>)
  /\ call[1].cal.temp = <<100, 100, 100>>
  /\ call[1].cal.wbB = <<699, 597>>

\* The text of a frame converted on its own: no store, no mask, no history.
TextOf(imageData, width, charset) ==
  Conversion(imageData.data, imageData.width, imageData.height, width,
             CHARACTER_SETS[charset]).text

\* C14: calibration and rendering keep nothing from one frame to the next:
\* a call without a mask publishes a text fixed by the pixel buffer, the
\* asciiWidth and the ramp alone, whatever frames and masks were processed
\* before it.
C14_NoFrameState ==
  (call # Null /\ call[1].maskData = Null /\ ~call[1].threw)
    => asciiOutput = TextOf(call[1].imageData, call[1].asciiWidth, call[1].charset)

C14_Witness ==
  /\ call # Null /\ call[1].maskData = Null /\ ~call[1].threw
  /\ call[1].previous # Null
  /\ Len(call[1].previous[1]) = Len(call[1].imageData.data)
  /\ call[1].previous[1][1] < 255
  /\ Len(asciiOutput) > 0

\* C15: updateAsciiOutput leaves its arguments as they were: after a call
\* with a mask the caller's pixel bytes and mask bytes are those passed in,
\* and the alpha byte of every pixel of the composited copy is the alpha
\* byte passed in.
C15_InputsUntouched ==
  MaskedCall =>
    /\ call[1].imageAfter = call[1].imageData.data
    /\ call[1].maskAfter = RawMask
    /\ Len(call[1].processed) = Len(call[1].imageData.data)
    /\ \A p \in 1..(Len(call[1].processed) \div 4) :
         call[1].processed[4 * p] = call[1].imageData.data[4 * p]

C15_Witness ==
  /\ MaskedCall
  /\ call[1].processed # call[1].imageData.data
  /\ call[1].smoothedMask # RawMask
  /\ call[1].imageAfter = call[1].imageData.data

\* C16: masking only darkens: every red, green and blue byte of the
\* composited copy is at most the byte passed in, equals it at confidence
\* 255, is 0 at confidence 0, and does not decrease as the confidence grows.
C16_AttenuatesTowardBlack ==
  MaskedCall =>
    \A k \in 1..Len(call[1].processed) :
      LET i == (k - 1) - ((k - 1) % 4)
          d == call[1].imageData.data[k]
          o == call[1].processed[k]
      IN ((k - 1) % 4 # 3 /\ i < Len(call[1].smoothedMask)) =>
           LET s == call[1].smoothedMask[i + 1]
           IN /\ o \in 0..d
              /\ s = 255 => o = d
              /\ s = 0 => o = 0
              /\ s < 255 => o <= Attenuate(d, s + 1)
              /\ s > 0 => o >= Attenuate(d, s - 1)

C16_Witness ==
  /\ MaskedCall
  /\ call[1].imageData = SixLevels(33)
  /\ call[1].smoothedMask[1] = 128
  /\ call[1].processed[1] = 114

\* The frame callback of loop i resumes after its await in this step.
Resumes(i) == loops[i].state = "awaiting" /\ loops'[i].state # "awaiting"

\* How the last call of segmenter.send of loop lp settled.
LastSend(lp) == IF lp.sends = <<>> THEN "none" ELSE lp.sends[Len(lp.sends)]

\* C17: when segmenter.send rejects, the frame read before the await is
\* still converted and published, without a mask; previousMaskData is what
\* it was before that frame; and the loop's next frame whose segmentation
\* succeeds is masked as usual: blended with the mask kept, which the new
\* mask then replaces.
C17_SegmentationFailure ==
  [][\A i \in 1..Len(loops) :
       Resumes(i) =>
         /\ call'[1].imageData = loops[i].frame[1].imageData
         /\ LastSend(loops'[i]) = "rejected" =>
              /\ call'[1].maskData = Null
              /\ previousMaskData' = previousMaskData
              /\ ~call'[1].threw =>
                   /\ asciiOutput' = TextOf(loops[i].frame[1].imageData,
                                            asciiWidth, selectedCharset)
                   /\ loops'[i].state = "scheduled"
         /\ (LastSend(loops[i]) = "rejected" /\ LastSend(loops'[i]) = "resolved") =>
              /\ call'[1].maskData # Null
              /\ previousMaskData' = Some(call'[1].maskData[1].data)
              /\ \A k \in 1..Len(call'[1].smoothedMask) :
                   IF /\ (k - 1) % 4 = 0
                      /\ previousMaskData # Null
                      /\ Len(previousMaskData[1]) = Len(call'[1].smoothedMask)
                   THEN Nearest(call'[1].smoothedMask[k],
                                call'[1].maskData[1].data[k],
                                previousMaskData[1][k])
                   ELSE call'[1].smoothedMask[k] = call'[1].maskData[1].data[k]
              /\ \A k \in 1..Len(call'[1].processed) :
                   (/\ k % 4 # 0
                    /\ k - ((k - 1) % 4) <= Len(call'[1].smoothedMask)
                    /\ call'[1].smoothedMask[k - ((k - 1) % 4)] = 0)
                     => call'[1].processed[k] = 0
    ]_vars

\* A frame masked after a frame whose segmentation failed, the mask of the
\* frame before the failure still being the previous one.
C17_Witness ==
  \E i \in 1..Len(loops) :
    /\ loops[i].sends = <<"resolved", "rejected", "resolved">>
    /\ MaskedCall /\ ~call[1].threw
    /\ call[1].previous # Null
    /\ call[1].previous[1] = call[1].earlier[1]
    /\ call[1].smoothedMask # RawMask

\* The loops whose frame callback has read a frame and not yet published it.
InFlight == {i \in 1..Len(loops) : loops[i].state = "awaiting"}

\* C18: at most one frame is in flight at any time: while a frame callback
\* is between reading the video frame and publishing its text, its await of
\* the segmentation included, no other frame callback has a frame of its
\* own, in every interleaving of startWebcam, stopWebcam, frame callbacks
\* and segmentation completions.
C18_OneFrameInFlight == Cardinality(InFlight) <= 1

\* The frame callback of loop i runs in this step, up to its end or to its
\* await.
Runs(i) ==
  /\ loops[i].state = "scheduled"
  /\ loops'[i] # loops[i]
  /\ loops'[i].state # "cancelled"

\* C19: frames faster than the cadence are skipped, not queued: a frame
\* callback less than 33 ms after the last processed frame's timestamp
\* converts and publishes nothing and only requests the next callback; two
\* consecutive conversions of a loop have timestamps at least 33 ms apart;
\* and a loop never has more than one callback pending.
C19_Cadence ==
  [][\A i \in 1..Len(loops) :
       /\ loops'[i].pending \in {0, 1}
       /\ (Runs(i) /\ now - loops[i].lastFrameTime < 33) =>
            /\ UNCHANGED <<asciiOutput, previousMaskData, call, perfMetrics>>
            /\ loops'[i] = [loops[i] EXCEPT !.requestedAt = now]
       /\ loops'[i].lastFrameTime # loops[i].lastFrameTime =>
            /\ loops'[i].lastFrameTime - loops[i].lastFrameTime >= 33
            /\ call' # Null /\ ~call'[1].threw
       /\ (Resumes(i) /\ ~call'[1].threw) =>
            loops'[i].lastFrameTime = loops[i].frame[1].timestamp
    ]_vars

\* The second conversion of a loop, 34 ms after its first, the callback
\* between the two having been skipped.
C19_Witness ==
  \E i \in 1..Len(loops) :
    /\ Len(loops[i].sends) = 2
    /\ loops[i].lastFrameTime = 68
    /\ loops[i].pending = 1
    /\ call # Null /\ ~call[1].threw

\* C20: stopWebcam releases the render loop: from its return to the next
\* call of startWebcam no frame callback is pending or gets requested,
\* animationFrameId stays null and asciiOutput is not written, also when
\* a frame callback was awaiting the segmentation as stopWebcam was called.
C20_StopReleasesLoop ==
  [][session'.released =>
       /\ animationFrameId' = Null
       /\ \A i \in 1..Len(loops') : loops'[i].pending = 0
       /\ session.released => asciiOutput' = asciiOutput
    ]_vars

\* stopWebcam returns in this step, a startWebcam having been called since
\* the stop before it.
StopReturns == ~session.released /\ session'.released

\* C21: every stream acquired by startWebcam is released by stopWebcam:
\* when stopWebcam returns, the tracks of every stream obtained so far are
\* stopped and streamRef is null, in any sequence of startWebcam and
\* stopWebcam, a second start before the first has resolved included.
C21_StreamsReleased ==
  [][StopReturns =>
       /\ streamRef' = Null
       /\ \A k \in 1..Len(streams') : ~streams'[k]
    ]_vars

\* The colour of pixel p (from 0) of the frame of the last call.
PixelOf(p) ==
  <<call[1].imageData.data[4 * p + 1], call[1].imageData.data[4 * p + 2],
    call[1].imageData.data[4 * p + 3]>>

\* b is a with its three channels scaled by one factor of at least 1.
ScaledUp(a, b) ==
  /\ \A c \in 1..3 : b[c] >= a[c]
  /\ \A c, d \in 1..3 : a[c] * b[d] = a[d] * b[c]

\* C22: lightness is monotonic: of two blocks of one hue converted under
\* the same colour correction, the second being the first scaled by a
\* factor of at least 1, the second has the greater or equal L*; and L*
\* lies in [0, 100].
C22_LightnessMonotonic ==
  (call # Null /\ ~call[1].threw) =>
    /\ \A k \in 1..Len(call[1].cells) : call[1].cells[k] \in 0..100000
    /\ (/\ call[1].maskData = Null
        /\ call[1].imageData.width = 2 /\ call[1].imageData.height = 2
        /\ Len(call[1].cells) = 2
        /\ PixelOf(0) = PixelOf(2) /\ PixelOf(1) = PixelOf(3)
        /\ ScaledUp(PixelOf(0), PixelOf(1)))
         => call[1].cells[1] <= call[1].cells[2]

C22_Witness ==
  /\ call # Null /\ ~call[1].threw
  /\ PixelOf(0) = <<20, 20, 20>> /\ PixelOf(1) = <<40, 40, 40>>
  /\ Len(call[1].cells) = 2
  /\ call[1].cells[1] < call[1].cells[2]
  /\ call[1].cells[1] < 8000 /\ call[1].cells[2] > 8000

\* The grid of the last call: its columns and rows.
Columns == call[1].asciiWidth

Rows == Len(call[1].cells) \div call[1].asciiWidth

\* Cell (x, y) lies in the grid.
InGrid(x, y) == x \in 0..(Columns - 1) /\ y \in 0..(Rows - 1)

\* The value of cell (x, y), and 0 outside the grid.
ValueAt(x, y) == IF InGrid(x, y) THEN call[1].cells[y * Columns + x + 1] ELSE 0

\* The positions x - 1, x, x + 1 that lie in 0..n-1: 3 inside, 2 at an end.
Span(x, n) == 3 - (IF x = 0 THEN 1 ELSE 0) - (IF x = n - 1 THEN 1 ELSE 0)

\* C23: the blurred value of a cell is the mean over exactly the cells of
\* its 3x3 neighbourhood that lie in the grid, itself included: 9 for an
\* interior cell, 6 for a border cell that is no corner and 4 for a corner
\* of a grid of at least 2x2; nothing is padded, wrapped or reflected and
\* the divisor is never 0.
C23_BlurNeighbourhood ==
  (call # Null /\ ~call[1].threw /\ call[1].asciiWidth > 0) =>
    /\ Len(call[1].blur) = Len(call[1].cells)
    /\ \A y \in 0..(Rows - 1) : \A x \in 0..(Columns - 1) :
         LET blur == call[1].blur[y * Columns + x + 1]
         IN /\ blur[2] >= 1
            /\ blur[2] = Cardinality({c \in ((x - 1)..(x + 1)) \X ((y - 1)..(y + 1)) :
                                        InGrid(c[1], c[2])})
            /\ (Columns >= 2 /\ Rows >= 2) => blur[2] = Span(x, Columns) * Span(y, Rows)
            /\ blur[1] = ValueAt(x - 1, y - 1) + ValueAt(x, y - 1) + ValueAt(x + 1, y - 1)
                          + ValueAt(x - 1, y) + ValueAt(x, y) + ValueAt(x + 1, y)
                          + ValueAt(x - 1, y + 1) + ValueAt(x, y + 1) + ValueAt(x + 1, y + 1)

\* A grid of 4x4 cells of different values: an interior cell with 9
\* neighbours, a border cell with 6 and a corner with 4.
C23_Witness ==
  /\ call # Null /\ ~call[1].threw
  /\ Columns = 4 /\ Rows = 4
  /\ call[1].blur[6][2] = 9 /\ call[1].blur[2][2] = 6 /\ call[1].blur[1][2] = 4
  /\ call[1].cells[4] # call[1].cells[5]
  /\ call[1].cells[1] # call[1].cells[2]

\* Every pixel of the frame of the last call has the colour of the first.
OneColour ==
  \A p \in 0..((Len(call[1].imageData.data) \div 4) - 1) : PixelOf(p) = PixelOf(0)

\* C24: for a frame of one colour and no mask the unsharp step changes no
\* cell: the blurred value of every cell, border and corner cells
\* included, is the cell's own value, so every character published, the
\* newlines aside, is the same character of the ramp.
C24_UniformFrame ==
  (call # Null /\ ~call[1].threw /\ call[1].maskData = Null /\ OneColour) =>
    /\ \A k \in 1..Len(call[1].cells) :
         /\ call[1].cells[k] = call[1].cells[1]
         /\ call[1].blur[k][1] = call[1].blur[k][2] * call[1].cells[k]
    /\ \A k \in 1..Len(asciiOutput) :
         \/ asciiOutput[k] = NewLine
         \/ asciiOutput[k] =
              CHARACTER_SETS[call[1].charset]
                [(call[1].cells[1] * (Len(CHARACTER_SETS[call[1].charset]) - 1))
                   \div 100000 + 1]

\* A frame of one colour on a grid of 4x4 cells, neither black nor white.
C24_Witness ==
  /\ call # Null /\ ~call[1].threw /\ call[1].maskData = Null /\ OneColour
  /\ Len(call[1].cells) = 16 /\ call[1].asciiWidth = 4
  /\ call[1].cells[1] > 20000 /\ call[1].cells[1] < 80000
  /\ call[1].blur[1][2] = 4 /\ call[1].blur[6][2] = 9
  /\ Len(asciiOutput) = 20

\* The cell width and height of the last call.
CallCellWidth == call[1].imageData.width \div call[1].asciiWidth

CallCellHeight == 2 * CallCellWidth

\* The block of cell k (from 0) of the last call.
CallBlock(k) ==
  Block(k % Columns, k \div Columns, CallCellWidth, CallCellHeight,
        call[1].imageData.width)

\* The sum of L* over the pixels of S in the bytes the last call converted.
RECURSIVE SumL(_)
SumL(S) ==
  IF S = {} THEN 0
  ELSE LET p == CHOOSE p \in S : TRUE
       IN RgbToLabL(call[1].processed[4 * p + 1], call[1].processed[4 * p + 2],
                    call[1].processed[4 * p + 3], call[1].cal)
          + SumL(S \ {p})

\* C25: with a cell width of at least 1, every cell is the mean of exactly
\* cellWidth * cellHeight pixels, the blocks of two cells share no pixel,
\* every pixel read lies in the buffer, and the pixels of the right and
\* bottom remainder belong to no cell.
C25_CellBlocks ==
  (call # Null /\ ~call[1].threw /\ call[1].asciiWidth > 0 /\ CallCellWidth >= 1) =>
    LET width == call[1].imageData.width
        cells == 0..(Len(call[1].cells) - 1)
    IN /\ Rows = call[1].imageData.height \div CallCellHeight
       /\ \A k \in cells :
            /\ Cardinality(CallBlock(k)) = CallCellWidth * CallCellHeight
            /\ \A p \in CallBlock(k) :
                 /\ 4 * p + 3 < Len(call[1].processed)
                 /\ p % width < Columns * CallCellWidth
                 /\ p \div width < Rows * CallCellHeight
            /\ \A j \in cells : j # k => CallBlock(j) \cap CallBlock(k) = {}
            /\ call[1].cells[k + 1] =
                 SumL(CallBlock(k)) \div (CallCellWidth * CallCellHeight)
       /\ Cardinality(UNION {CallBlock(k) : k \in cells})
            = Columns * CallCellWidth * Rows * CallCellHeight

\* A frame of 5x9 pixels on a grid of 2x2 cells of 2x4 pixels: the fifth
\* column and the ninth row belong to no cell.
C25_Witness ==
  /\ call # Null /\ ~call[1].threw
  /\ call[1].imageData.width = 5 /\ call[1].imageData.height = 9
  /\ Columns = 2 /\ Rows = 2 /\ CallCellWidth = 2
  /\ call[1].cells[1] # call[1].cells[2]
  /\ call[1].cells[1] # call[1].cells[3]

\* The rows of a text: its newlines.
RowsOf(text) == Cardinality({k \in 1..Len(text) : text[k] = NewLine})

\* A frame callback converts a frame in this step and goes on to write the
\* performance snapshot.
SnapshotWritten == call' # call /\ ~call'[1].threw

\* C26: the performance snapshot of a frame reports the grid of the text
\* the same frame callback published: gridSize is C x R, C being the
\* characters of a row and R the rows of asciiOutput; and the snapshot
\* leaves asciiOutput and previousMaskData as the conversion set them.
C26_SnapshotGrid ==
  [][SnapshotWritten =>
       /\ perfMetrics' # Null
       /\ perfMetrics'[1].gridSize[2] = RowsOf(asciiOutput')
       /\ Len(asciiOutput')
            = perfMetrics'[1].gridSize[2] * (perfMetrics'[1].gridSize[1] + 1)
       /\ perfMetrics'[1].resolution
            = <<call'[1].imageData.width, call'[1].imageData.height>>
       /\ asciiOutput' = Conversion(call'[1].processed, call'[1].imageData.width,
                                    call'[1].imageData.height, call'[1].asciiWidth,
                                    CHARACTER_SETS[call'[1].charset]).text
       /\ call'[1].maskData = Null => previousMaskData' = previousMaskData
       /\ call'[1].maskData # Null => previousMaskData' = Some(call'[1].maskData[1].data)
    ]_vars

\* Every byte of the mask canvas is 0: nothing was drawn since the frame
\* callback resized it.
CanvasCleared ==
  maskCanvas # Null /\ \A k \in 1..Len(maskCanvas[1].data) : maskCanvas[1].data[k] = 0

\* C27: when segmenter.send completes and the results callback has drawn
\* nothing on the mask canvas the frame callback cleared, the pipeline gets
\* no mask for the frame: the frame is converted as a frame without a mask
\* and is not attenuated by a mask of zeros.
C27_NoMaskDelivered ==
  [][\A i \in 1..Len(loops) :
       (Resumes(i) /\ LastSend(loops'[i]) = "empty" /\ CanvasCleared) =>
         /\ call'[1].maskData = Null
         /\ call'[1].processed = loops[i].frame[1].imageData.data
         /\ previousMaskData' = previousMaskData
    ]_vars

\* C28: the render loop stays alive while capture is active: every frame
\* callback that runs between startWebcam and stopWebcam ends by requesting
\* exactly one next frame callback, whatever the frame brought: a video not
\* ready, a skipped frame, a failed segmentation or a conversion that
\* throws on a degenerate grid.
C28_LoopStaysAlive ==
  [][\A i \in 1..Len(loops) :
       (/\ ~session.released
        /\ Runs(i) \/ Resumes(i)
        /\ loops'[i].state # "awaiting") =>
         /\ loops'[i].state = "scheduled"
         /\ loops'[i].pending = 1
         /\ animationFrameId' # Null
    ]_vars

\* C29: a call of updateAsciiOutput that throws leaves the store as it
\* was: asciiOutput and previousMaskData keep their values, also when the
\* failing frame came with a mask.
C29_FailedCallChangesNothing ==
  [][(call' # call /\ call'[1].threw) =>
       /\ asciiOutput' = asciiOutput
       /\ previousMaskData' = previousMaskData
    ]_vars

\* A call of startWebcam fails in this step: the video element is missing,
\* or getUserMedia rejects.
StartFails ==
  /\ webcamError' # Null
  /\ \/ startsBegun' = startsBegun + 1
     \/ Len(pendingStarts') < Len(pendingStarts)

\* C30: a failed startWebcam leaves capture inactive: webcamError holds a
\* message, isWebcamActive is false, no stream is held and no render loop
\* runs, also when startWebcam was called while capture was active.
C30_FailedStartInactive ==
  [][StartFails =>
       /\ ~isWebcamActive'
       /\ streamRef' = Null
       /\ \A i \in 1..Len(loops') : loops'[i].state \notin {"scheduled", "awaiting"}
    ]_vars

====
